---- MODULE Spec2Model ----
(***************************************************************************)
(* Model of the Amp reverse-proxy module of ai-cli-proxy-api:              *)
(*   - the response normalizer (proxy.ModifyResponse) with its streaming   *)
(*     classification (isStreamingResponse), in both copies that           *)
(*     src/internal/api/modules/amp/proxy.go holds;                        *)
(*   - the outbound director, the error handler and createReverseProxy.    *)
(* Byte strings are sequences of naturals in 0..255; header values, keys   *)
(* and addresses are strings.                                              *)
(***************************************************************************)
EXTENDS Integers, Sequences, FiniteSets, TLC

VARIABLES
    build,      \* which copy of createReverseProxy / isStreamingResponse is compiled in (1 or 2)
    npc,        \* position of the response under normalization: idle, received, modified, copied
    resp,       \* the *http.Response handed to ModifyResponse
    wire,       \* the upstream body reader: the bytes it yields (data), whether it
                \* then fails (err) instead of ending, and what it yields after that (more)
    orig,       \* the response as the upstream sent it (history, for the properties)
    got,        \* what the client read from resp.Body after ModifyResponse
    ppc,        \* createReverseProxy: "none" (not called), "built" or "failed"
    upstreamURL,    \* the address createReverseProxy was last called with
    parsed,     \* the *url.URL the proxy forwards to
    secretSource,   \* what the proxy's SecretSource returns from Get: a value and an error flag
    rpc,        \* position of the request being served: idle, directed, failed, answered
    inReq,      \* the request as the client sent it
    outReq,     \* the request after the director, as it goes to the upstream
    rw,         \* the response the error handler wrote to the client
    ms,         \* the MultiSourceSecret: its explicit key and its cache entry
    now,        \* the clock, in minutes
    env,        \* the value of the environment variable the resolver reads
    file,       \* the secrets file: missing, unreadable, or its contents
    lastGet,    \* the last MultiSourceSecret.Get: what it found and returned (history)
    dropped,    \* the cache entry the last InvalidateCache cleared (history)
    registry,   \* the global model registry: model ID -> *ModelInfo (or nil)
    resolved,   \* the last resolveEndpointOverride call against the registry as it
                \* is: arguments, registry lookups made, and result (history)
    ampModule,  \* the *AmpModule m: enabled, proxy, secretSource
    routes,     \* the route groups registered on the engine
    cfg,        \* the configuration the host last handed to the module
    registration,   \* whether Register has run, with which upstream address
                \* (trimmed), and whether it returned an error (history)
    called      \* the last Register / OnConfigUpdated call and what it returned (history)

normVars == <<build, npc, resp, wire, orig, got>>
proxyVars == <<ppc, upstreamURL, parsed, secretSource, rpc, inReq, outReq, rw>>
secretVars == <<ms, now, env, file, lastGet, dropped>>
resolverVars == <<registry, resolved>>
moduleVars == <<ampModule, routes, cfg, registration, called>>
vars == <<normVars, proxyVars, secretVars, resolverVars, moduleVars>>

(***************************************************************************)
(* Bounds                                                                  *)
(***************************************************************************)
MaxPayloadLen == 2
MaxTime == 7

(***************************************************************************)
(* Program constants                                                       *)
(***************************************************************************)
GzipMagic0 == 31
GzipMagic1 == 139
StatusOKLow == 200
StatusOKHigh == 300

Absent == "<absent>"

(***************************************************************************)
(* Strings                                                                 *)
(***************************************************************************)
\* strings.Contains
Contains(s, sub) ==
    \E i \in 1..(Len(s) - Len(sub) + 1) : SubSeq(s, i, i + Len(sub) - 1) = sub

LowerChar(c) ==
    CASE c = "A" -> "a" [] c = "B" -> "b" [] c = "C" -> "c" [] c = "D" -> "d"
      [] c = "E" -> "e" [] c = "F" -> "f" [] c = "G" -> "g" [] c = "H" -> "h"
      [] c = "I" -> "i" [] c = "J" -> "j" [] c = "K" -> "k" [] c = "L" -> "l"
      [] c = "M" -> "m" [] c = "N" -> "n" [] c = "O" -> "o" [] c = "P" -> "p"
      [] c = "Q" -> "q" [] c = "R" -> "r" [] c = "S" -> "s" [] c = "T" -> "t"
      [] c = "U" -> "u" [] c = "V" -> "v" [] c = "W" -> "w" [] c = "X" -> "x"
      [] c = "Y" -> "y" [] c = "Z" -> "z"
      [] OTHER -> c

RECURSIVE ToLower(_)
\* strings.ToLower
ToLower(s) ==
    IF s = "" THEN ""
    ELSE LowerChar(SubSeq(s, 1, 1)) \o ToLower(SubSeq(s, 2, Len(s)))

Digit(d) ==
    CASE d = 0 -> "0" [] d = 1 -> "1" [] d = 2 -> "2" [] d = 3 -> "3" [] d = 4 -> "4"
      [] d = 5 -> "5" [] d = 6 -> "6" [] d = 7 -> "7" [] d = 8 -> "8" [] d = 9 -> "9"

RECURSIVE FormatInt(_)
\* strconv.FormatInt(n, 10), n >= 0
FormatInt(n) ==
    IF n < 10 THEN Digit(n) ELSE FormatInt(n \div 10) \o Digit(n % 10)

\* http.Header.Get: the value, "" when the header is absent
HeaderGet(h, name) == IF h[name] = Absent THEN "" ELSE h[name]

(***************************************************************************)
(* gzip (compress/gzip), abstracted: a member is the header ID1 ID2 CM,    *)
(* one stored block (length, bytes), and the trailer (checksum, size).     *)
(***************************************************************************)
RECURSIVE SumBytes(_)
SumBytes(p) == IF p = <<>> THEN 0 ELSE p[1] + SumBytes(Tail(p))

Checksum(p) == (SumBytes(p) + 7 * Len(p) + 1) % 256

\* gzipBytes: gzip.NewWriter, Write, Close
gzipBytes(p) ==
    <<GzipMagic0, GzipMagic1, 8>> \o <<Len(p)>> \o p \o <<Checksum(p), Len(p) % 256>>

Drop(s, k) == SubSeq(s, k + 1, Len(s))

\* gzip.Reader.readHeader on the bytes d: "ok", "eof" (no byte left) or "err"
ReadHeader(d) ==
    IF d = <<>> THEN "eof"
    ELSE IF Len(d) < 3 THEN "err"
    ELSE IF d[1] = GzipMagic0 /\ d[2] = GzipMagic1 /\ d[3] = 8 THEN "ok"
    ELSE "err"

\* one member's body after its header: the stored block and the trailer
MemberOK(d) ==
    /\ Len(d) >= 1
    /\ Len(d) >= 1 + d[1] + 2
    /\ LET p == SubSeq(d, 2, 1 + d[1])
       IN  /\ d[2 + d[1]] = Checksum(p)
           /\ d[3 + d[1]] = Len(p) % 256

RECURSIVE ReadMembers(_, _)
\* io.ReadAll(gzipReader) after NewReader accepted the first header: the
\* reader is multistream, so each further member is decoded and appended,
\* and anything else after a member is an error.
ReadMembers(d, acc) ==
    IF ~MemberOK(d) THEN [err |-> "read", out |-> <<>>]
    ELSE LET p    == SubSeq(d, 2, 1 + d[1])
             rest == Drop(d, 3 + d[1])
             h    == ReadHeader(rest)
         IN  IF h = "eof" THEN [err |-> "none", out |-> acc \o p]
             ELSE IF h = "err" THEN [err |-> "read", out |-> <<>>]
             ELSE ReadMembers(Drop(rest, 3), acc \o p)

\* gzip.NewReader followed by io.ReadAll: err is "header" when NewReader
\* fails, "read" when ReadAll fails, "none" on success
Gunzip(d) ==
    IF ReadHeader(d) # "ok" THEN [err |-> "header", out |-> <<>>]
    ELSE ReadMembers(Drop(d, 3), <<>>)

(***************************************************************************)
(* The upstream body reader and the readers built over it                  *)
(***************************************************************************)
Min(a, b) == IF a < b THEN a ELSE b

\* the reader after it reported its end or its failure
Past(w) == [data |-> IF w.err THEN w.more ELSE <<>>, err |-> FALSE, more |-> <<>>]

\* io.ReadFull(r, header) with len(header) = 2: err is "none", "eof"
\* (io.EOF or io.ErrUnexpectedEOF) or "fail" (the reader's own error)
ReadFull2(w) ==
    LET n == Min(2, Len(w.data))
    IN  [ n     |-> n,
          bytes |-> SubSeq(w.data, 1, n),
          err   |-> IF n = 2 THEN "none"
                    ELSE IF w.err THEN "fail" ELSE "eof",
          wire  |-> IF n = 2 THEN [w EXCEPT !.data = Drop(w.data, 2)]
                    ELSE Past(w) ]

\* io.ReadAll(r): everything up to the end of the reader or its failure
ReadAll(w) ==
    [ bytes |-> w.data,
      err   |-> IF w.err THEN "fail" ELSE "none",
      wire  |-> Past(w) ]

\* faulty variant: the body is restored without the peeked bytes
MultiReaderBodyDropsPeek(b) == [buf |-> <<>>, tail |-> TRUE]

\* io.NopCloser(io.MultiReader(bytes.NewReader(b), resp.Body))
MultiReaderBody(b) == [buf |-> b, tail |-> TRUE]

\* io.NopCloser(bytes.NewReader(b))
BytesReaderBody(b) == [buf |-> b, tail |-> FALSE]

(***************************************************************************)
(* isStreamingResponse, both copies                                        *)
(***************************************************************************)
isStreamingResponse1(r) ==
    Contains(HeaderGet(r.Header, "Content-Type"), "text/event-stream")

isStreamingResponse2(r) ==
    \/ Contains(HeaderGet(r.Header, "Content-Type"), "text/event-stream")
    \/ Contains(ToLower(HeaderGet(r.Header, "Transfer-Encoding")), "chunked")

isStreamingResponse(b, r) ==
    IF b = 1 THEN isStreamingResponse1(r) ELSE isStreamingResponse2(r)

(***************************************************************************)
(* ModifyResponse, both copies.  Each yields the response and the state of *)
(* the upstream reader when the handler returns.                           *)
(***************************************************************************)
\* faulty variant: a declared Content-Encoding no longer ends the handler
SkipResponseIgnoresEncoding(b, r) ==
    \/ r.StatusCode < StatusOKLow
    \/ r.StatusCode >= StatusOKHigh
    \/ isStreamingResponse(b, r)

\* the three early returns of ModifyResponse
SkipResponse(b, r) ==
    \/ r.StatusCode < StatusOKLow
    \/ r.StatusCode >= StatusOKHigh
    \/ HeaderGet(r.Header, "Content-Encoding") # ""
    \/ isStreamingResponse(b, r)

IsGzipMagic(n, header) ==
    n >= 2 /\ header[1] = GzipMagic0 /\ header[2] = GzipMagic1

\* the successful end of the first copy: body, ContentLength, both headers
Decompressed1(r, decompressed) ==
    [r EXCEPT !.Body = BytesReaderBody(decompressed),
              !.ContentLength = Len(decompressed),
              !.Header = [r.Header EXCEPT
                            !["Content-Encoding"] = Absent,
                            !["Content-Length"] = FormatInt(Len(decompressed))]]

\* the successful end of the second copy: the Content-Length header stays
Decompressed2(r, decompressed) ==
    [r EXCEPT !.Body = BytesReaderBody(decompressed),
              !.ContentLength = Len(decompressed),
              !.Header = [r.Header EXCEPT !["Content-Encoding"] = Absent]]

ModifyResponse1(r, w) ==
    LET peek == ReadFull2(w)
    IN  IF IsGzipMagic(peek.n, peek.bytes)
        THEN LET rest == ReadAll(peek.wire)
                 gzippedData == peek.bytes \o rest.bytes
                 z == Gunzip(gzippedData)
             IN  IF rest.err # "none"
                 THEN [resp |-> [r EXCEPT !.Body = MultiReaderBody(peek.bytes)],
                       wire |-> rest.wire]
                 ELSE IF z.err # "none"
                 THEN [resp |-> [r EXCEPT !.Body = BytesReaderBody(gzippedData)],
                       wire |-> rest.wire]
                 ELSE [resp |-> Decompressed1(r, z.out), wire |-> rest.wire]
        ELSE [resp |-> [r EXCEPT !.Body = MultiReaderBody(peek.bytes)],
              wire |-> peek.wire]

\* In the second copy every byte read through the TeeReader is also written
\* to buf, so buf holds the two peeked bytes and then the whole remainder.
ModifyResponse2(r, w) ==
    LET peek == ReadFull2(w)
    IN  IF peek.err = "fail"
        THEN [resp |-> [r EXCEPT !.Body = MultiReaderBody(peek.bytes)],
              wire |-> peek.wire]
        ELSE IF IsGzipMagic(peek.n, peek.bytes)
        THEN LET fullBody == ReadAll(peek.wire)
                 buf == peek.bytes \o fullBody.bytes
                 gzippedData == buf \o fullBody.bytes
                 z == Gunzip(gzippedData)
             IN  IF fullBody.err # "none"
                 THEN [resp |-> [r EXCEPT !.Body = MultiReaderBody(buf)],
                       wire |-> fullBody.wire]
                 ELSE IF z.err # "none"
                 THEN [resp |-> [r EXCEPT !.Body = BytesReaderBody(gzippedData)],
                       wire |-> fullBody.wire]
                 ELSE [resp |-> Decompressed2(r, z.out), wire |-> fullBody.wire]
        ELSE [resp |-> [r EXCEPT !.Body = MultiReaderBody(peek.bytes)],
              wire |-> peek.wire]

ModifyResponseResult(b, r, w) ==
    IF SkipResponse(b, r) THEN [resp |-> r, wire |-> w]
    ELSE IF b = 1 THEN ModifyResponse1(r, w)
    ELSE ModifyResponse2(r, w)

(***************************************************************************)
(* Responses the upstream can send                                         *)
(***************************************************************************)
PayloadBytes == {GzipMagic0, GzipMagic1}

Payloads == UNION {[1..n -> PayloadBytes] : n \in 0..MaxPayloadLen}

GzipBodies == {gzipBytes(p) : p \in Payloads}

TruncatedBodies ==
    UNION {{SubSeq(g, 1, k) : k \in 0..(Len(g) - 1)} : g \in GzipBodies}

CorruptedBodies ==
    UNION {{[g EXCEPT ![i] = (g[i] + 1) % 256] : i \in 1..Len(g)} : g \in GzipBodies}

TwoMemberBodies == {gzipBytes(p) \o gzipBytes(p) : p \in {q \in Payloads : Len(q) <= 1}}

PlainBodies == {<<>>, <<GzipMagic0>>, <<GzipMagic1, GzipMagic0>>, <<123, 125>>, <<123, 34, 125>>}

Bodies == GzipBodies \cup TruncatedBodies \cup CorruptedBodies
            \cup TwoMemberBodies \cup PlainBodies

Statuses == {199, 200, 299, 300}

ContentEncodings == {Absent, "", "gzip"}

ContentTypes == {Absent, "application/json", "text/event-stream; charset=utf-8"}

TransferEncodings == {Absent, "chunked", "Chunked", "identity"}

\* mkResp: the response as the transport hands it to ModifyResponse
mkResp(status, ce, ct, te, body) ==
    [ StatusCode    |-> status,
      Header        |-> [ n \in {"Content-Encoding", "Content-Type",
                                 "Transfer-Encoding", "Content-Length"} |->
                            CASE n = "Content-Encoding" -> ce
                              [] n = "Content-Type" -> ct
                              [] n = "Transfer-Encoding" -> te
                              [] OTHER -> IF te = Absent THEN FormatInt(Len(body))
                                          ELSE Absent ],
      ContentLength |-> IF te = Absent THEN Len(body) ELSE -1,
      Body          |-> [buf |-> <<>>, tail |-> TRUE] ]

NoResp == mkResp(0, Absent, Absent, Absent, <<>>)
NoWire == [data |-> <<>>, err |-> FALSE, more |-> <<>>]
NoOrig == [body |-> <<>>, wire |-> NoWire, resp |-> NoResp]

\* the readers that yield body: to its end, or failing after f bytes
WireOf(body, f) ==
    IF f > Len(body) THEN [data |-> body, err |-> FALSE, more |-> <<>>]
    ELSE [data |-> SubSeq(body, 1, f), err |-> TRUE, more |-> Drop(body, f)]

(***************************************************************************)
(* net/url.Parse, for addresses without '?', '#', '@' or '['               *)
(***************************************************************************)
Letters ==
    {"a", "b", "c", "d", "e", "f", "g", "h", "i", "j", "k", "l", "m", "n", "o",
     "p", "q", "r", "s", "t", "u", "v", "w", "x", "y", "z",
     "A", "B", "C", "D", "E", "F", "G", "H", "I", "J", "K", "L", "M", "N", "O",
     "P", "Q", "R", "S", "T", "U", "V", "W", "X", "Y", "Z"}

Digits == {"0", "1", "2", "3", "4", "5", "6", "7", "8", "9"}

\* strings.TrimSpace
WhiteSpace == {" ", "\t", "\n", "\r"}

RECURSIVE TrimLeft(_)
TrimLeft(s0) ==
    IF s0 # "" /\ SubSeq(s0, 1, 1) \in WhiteSpace THEN TrimLeft(SubSeq(s0, 2, Len(s0)))
    ELSE s0

RECURSIVE TrimRight(_)
TrimRight(s0) ==
    IF s0 # "" /\ SubSeq(s0, Len(s0), Len(s0)) \in WhiteSpace
    THEN TrimRight(SubSeq(s0, 1, Len(s0) - 1))
    ELSE s0

TrimSpace(s0) == TrimRight(TrimLeft(s0))

HexDigits == Digits \cup {"a", "b", "c", "d", "e", "f", "A", "B", "C", "D", "E", "F"}

CharAt(s, i) == SubSeq(s, i, i)

HasPrefix(s, pre) == Len(s) >= Len(pre) /\ SubSeq(s, 1, Len(pre)) = pre

HasSuffix(s, suf) == Len(s) >= Len(suf) /\ SubSeq(s, Len(s) - Len(suf) + 1, Len(s)) = suf

\* strings.Index for a one-character c: the first position, 0 when there is none
Index(s, c) ==
    IF \E i \in 1..Len(s) : CharAt(s, i) = c
    THEN CHOOSE i \in 1..Len(s) :
            CharAt(s, i) = c /\ \A j \in 1..(i - 1) : CharAt(s, j) # c
    ELSE 0

\* strings.LastIndex for a one-character c
LastIndex(s, c) ==
    IF \E i \in 1..Len(s) : CharAt(s, i) = c
    THEN CHOOSE i \in 1..Len(s) :
            CharAt(s, i) = c /\ \A j \in (i + 1)..Len(s) : CharAt(s, j) # c
    ELSE 0

RECURSIVE getScheme(_, _)
\* url.getScheme, scanning from position i
getScheme(rawURL, i) ==
    IF i > Len(rawURL) THEN [scheme |-> "", rest |-> rawURL, err |-> FALSE]
    ELSE LET c == CharAt(rawURL, i)
         IN  IF c \in Letters THEN getScheme(rawURL, i + 1)
             ELSE IF c \in Digits \cup {"+", "-", "."}
             THEN IF i = 1 THEN [scheme |-> "", rest |-> rawURL, err |-> FALSE]
                  ELSE getScheme(rawURL, i + 1)
             ELSE IF c = ":"
             THEN IF i = 1 THEN [scheme |-> "", rest |-> "", err |-> TRUE]
                  ELSE [scheme |-> SubSeq(rawURL, 1, i - 1),
                        rest |-> Drop(rawURL, i), err |-> FALSE]
             ELSE [scheme |-> "", rest |-> rawURL, err |-> FALSE]

\* url.validOptionalPort
validOptionalPort(port) ==
    \/ port = ""
    \/ /\ CharAt(port, 1) = ":"
       /\ \A i \in 2..Len(port) : CharAt(port, i) \in Digits

\* the host characters url.unescape(host, encodeHost) accepts unescaped
HostChars ==
    Letters \cup Digits \cup
    {"-", "_", ".", "~", "!", "$", "&", "'", "(", ")", "*", "+", ",", ";", "=", ":",
     "<", ">"}

\* url.parseHost: TRUE when the host is accepted
parseHostOK(host) ==
    /\ LET i == LastIndex(host, ":")
       IN  i # 0 => validOptionalPort(SubSeq(host, i, Len(host)))
    /\ \A i \in 1..Len(host) : CharAt(host, i) \in HostChars

\* url.unescape(path, encodePath): every '%' is followed by two hex digits
unescapeOK(path) ==
    \A i \in 1..Len(path) :
        CharAt(path, i) = "%" =>
            /\ i + 2 <= Len(path)
            /\ CharAt(path, i + 1) \in HexDigits
            /\ CharAt(path, i + 2) \in HexDigits

URLError == [err |-> TRUE, Scheme |-> "", Opaque |-> "", Host |-> "", Path |-> ""]

\* url.Parse
Parse(rawURL) ==
    LET g      == getScheme(rawURL, 1)
        scheme == ToLower(g.scheme)
        rest   == g.rest
        slash  == Index(rest, "/")
        segment == IF slash = 0 THEN rest ELSE SubSeq(rest, 1, slash - 1)
        hasAuthority ==
            (scheme # "" \/ ~HasPrefix(rest, "///")) /\ HasPrefix(rest, "//")
        afterSlashes == Drop(rest, 2)
        cut    == Index(afterSlashes, "/")
        authority == IF cut = 0 THEN afterSlashes ELSE SubSeq(afterSlashes, 1, cut - 1)
        path   == IF ~hasAuthority THEN rest
                  ELSE IF cut = 0 THEN "" ELSE Drop(afterSlashes, cut - 1)
    IN  IF g.err THEN URLError
        ELSE IF ~HasPrefix(rest, "/") /\ scheme # ""
        THEN [err |-> FALSE, Scheme |-> scheme, Opaque |-> rest, Host |-> "", Path |-> ""]
        ELSE IF ~HasPrefix(rest, "/") /\ Contains(segment, ":") THEN URLError
        ELSE IF hasAuthority /\ ~parseHostOK(authority) THEN URLError
        ELSE IF ~unescapeOK(path) THEN URLError
        ELSE [err |-> FALSE, Scheme |-> scheme, Opaque |-> "",
              Host |-> IF hasAuthority THEN authority ELSE "", Path |-> path]

(***************************************************************************)
(* createReverseProxy, the director and the error handler                  *)
(***************************************************************************)
StatusBadGateway == 502

\* the result of createReverseProxy(upstreamURL, secretSource)
createReverseProxyResult(addr) ==
    LET u == Parse(addr)
    IN  IF u.err THEN [proxy |-> FALSE, err |-> TRUE, parsed |-> URLError]
        ELSE [proxy |-> TRUE, err |-> FALSE, parsed |-> u]

\* httputil.singleJoiningSlash
singleJoiningSlash(a, b) ==
    LET aslash == HasSuffix(a, "/")
        bslash == HasPrefix(b, "/")
    IN  IF aslash /\ bslash THEN a \o Drop(b, 1)
        ELSE IF ~aslash /\ ~bslash THEN a \o "/" \o b
        ELSE a \o b

\* the director NewSingleHostReverseProxy installs
originalDirector(req, target) ==
    [req EXCEPT !.URL = [Scheme |-> target.Scheme, Host |-> target.Host,
                         Path |-> singleJoiningSlash(target.Path, req.URL.Path)]]

\* http.Header.Set: the value replaces all values of the header
HeaderSet(h, name, value) == [h EXCEPT ![name] = <<value>>]

\* secretSource.Get(req.Context())
SecretGet(src) == [key |-> src.value, err |-> src.err]

\* http.Header.Add: the value is appended to the header's values
HeaderAdd(h, name, value) == [h EXCEPT ![name] = Append(h[name], value)]

\* faulty variant: the credential is added after the client's values, not set
DirectorAddsHeaders(req, target, g) ==
    LET r1 == originalDirector(req, target)
        r2 == [r1 EXCEPT !.Host = target.Host]
    IN  IF ~g.err /\ g.key # ""
        THEN [r2 EXCEPT !.Header =
                HeaderAdd(HeaderAdd(r2.Header, "X-Api-Key", g.key),
                          "Authorization", "Bearer " \o g.key)]
        ELSE r2

\* proxy.Director
Director(req, target, g) ==
    LET r1 == originalDirector(req, target)
        r2 == [r1 EXCEPT !.Host = target.Host]
    IN  IF ~g.err /\ g.key # ""
        THEN [r2 EXCEPT !.Header =
                HeaderSet(HeaderSet(r2.Header, "X-Api-Key", g.key),
                          "Authorization", "Bearer " \o g.key)]
        ELSE r2

ErrorBody ==
    "{\"error\":\"amp_upstream_proxy_error\",\"message\":\"Failed to reach Amp upstream\"}"

\* faulty variant: the transport error's text is put into the message
ErrorHandlerLeaksError(req, err) ==
    [ written    |-> TRUE,
      StatusCode |-> StatusBadGateway,
      Header     |-> [n \in {"Content-Type"} |-> <<"application/json">>],
      Body       |-> "{\"error\":\"amp_upstream_proxy_error\",\"message\":\""
                        \o err \o "\"}",
      log        |-> <<req.Method, req.URL.Path, err>> ]

\* proxy.ErrorHandler(rw, req, err): what the client receives
ErrorHandler(req, err) ==
    [ written    |-> TRUE,
      StatusCode |-> StatusBadGateway,
      Header     |-> [n \in {"Content-Type"} |-> <<"application/json">>],
      Body       |-> ErrorBody,
      log        |-> <<req.Method, req.URL.Path, err>> ]

(***************************************************************************)
(* Addresses, secrets, requests and transport errors                       *)
(***************************************************************************)
SchemeParts == {"", "http:", "HTTPS:", ":", "1http:"}

SlashParts == {"", "//"}

HostParts == {"", "example.com", "127.0.0.1:1", "example.com:port", "exa mple.com"}

PathParts == {"", "/api", "/%zz"}

Addresses ==
    {sc \o sl \o h \o pa : sc \in SchemeParts, sl \in SlashParts,
                           h \in HostParts, pa \in PathParts}

SecretSources ==
    {[value |-> v, err |-> FALSE] : v \in {"", "k", "secret"}}
        \cup {[value |-> "", err |-> TRUE]}

ClientKeyHeaders == {<<>>, <<"">>, <<"client-key">>}

ClientAuthHeaders == {<<>>, <<"Bearer client-key">>, <<"Basic abc", "Bearer client-key">>}

ClientPaths == {"/api/user", "api/auth"}

\* the request as the host's router hands it to proxy.ServeHTTP
ClientRequest(path, key, auth) ==
    [ Method |-> "GET",
      Host   |-> "localhost:8317",
      URL    |-> [Scheme |-> "", Host |-> "", Path |-> path],
      Header |-> [n \in {"X-Api-Key", "Authorization"} |->
                    IF n = "X-Api-Key" THEN key ELSE auth] ]

TransportErrors ==
    {"dial tcp 127.0.0.1:1: connect: connection refused",
     "context deadline exceeded",
     "unsupported protocol scheme"}

NoReq == ClientRequest("", <<>>, <<>>)

NoRW == [written |-> FALSE, StatusCode |-> 0,
         Header |-> [n \in {"Content-Type"} |-> <<>>], Body |-> "", log |-> <<>>]

(***************************************************************************)
(* The proxy as a state machine                                            *)
(***************************************************************************)
ProxyInit ==
    /\ ppc = "none"
    /\ upstreamURL = ""
    /\ parsed = URLError
    /\ secretSource = [value |-> "", err |-> FALSE]
    /\ rpc = "idle"
    /\ inReq = NoReq
    /\ outReq = NoReq
    /\ rw = NoRW

\* createReverseProxy(upstreamURL, secretSource)
createReverseProxy ==
    /\ ppc # "built"
    /\ \E addr \in Addresses, src \in SecretSources :
         LET res == createReverseProxyResult(addr)
         IN  /\ upstreamURL' = addr
             /\ parsed' = res.parsed
             /\ ppc' = IF res.err THEN "failed" ELSE "built"
             /\ secretSource' = src
    /\ UNCHANGED <<rpc, inReq, outReq, rw>>
    /\ UNCHANGED <<normVars, secretVars, resolverVars, moduleVars>>

\* proxy.ServeHTTP, first step: the director rewrites the outbound request
ServeDirector ==
    /\ ppc = "built"
    /\ rpc = "idle"
    /\ \E path \in ClientPaths, key \in ClientKeyHeaders, auth \in ClientAuthHeaders :
         /\ inReq' = ClientRequest(path, key, auth)
         /\ outReq' = Director(ClientRequest(path, key, auth), parsed,
                               SecretGet(secretSource))
    /\ rpc' = "directed"
    /\ rw' = NoRW
    /\ UNCHANGED <<ppc, upstreamURL, parsed, secretSource>>
    /\ UNCHANGED <<normVars, secretVars, resolverVars, moduleVars>>

\* the transport fails: proxy.ErrorHandler answers the client
TransportFails ==
    /\ rpc = "directed"
    /\ \E err \in TransportErrors :
         rw' = ErrorHandler(outReq, err)
    /\ rpc' = "failed"
    /\ UNCHANGED <<ppc, upstreamURL, parsed, secretSource, inReq, outReq>>
    /\ UNCHANGED <<normVars, secretVars, resolverVars, moduleVars>>

\* the upstream answers: the response goes through ModifyResponse
UpstreamAnswers ==
    /\ rpc = "directed"
    /\ rpc' = "answered"
    /\ UNCHANGED <<ppc, upstreamURL, parsed, secretSource, inReq, outReq, rw>>
    /\ UNCHANGED <<normVars, secretVars, resolverVars, moduleVars>>

\* the request is over
RequestDone ==
    /\ rpc \in {"failed", "answered"}
    /\ rpc' = "idle"
    /\ inReq' = NoReq
    /\ outReq' = NoReq
    /\ rw' = NoRW
    /\ UNCHANGED <<ppc, upstreamURL, parsed, secretSource>>
    /\ UNCHANGED <<normVars, secretVars, resolverVars, moduleVars>>

(***************************************************************************)
(* The Multi-Source secret resolver (spec section 4.1)                     *)
(***************************************************************************)
DefaultTTL == 5

NoEntry == [valid |-> FALSE, value |-> "", resolvedAt |-> 0]

\* NewMultiSourceSecret(explicitKey, 0): the default TTL, nothing cached
NewMultiSourceSecret(explicitKey) == [explicitKey |-> explicitKey, cache |-> NoEntry]

\* the entry exists and is younger than the TTL
CacheFresh(m, t) == m.cache.valid /\ t - m.cache.resolvedAt < DefaultTTL

\* the precedence chain: explicit config value, environment variable, file
\* contents (trimmed); the first non-empty one wins; only an unreadable file
\* is an error
ResolveSources(m, e, f) ==
    IF m.explicitKey # "" THEN [value |-> m.explicitKey, err |-> FALSE]
    ELSE IF e # "" THEN [value |-> e, err |-> FALSE]
    ELSE IF f.state = "unreadable" THEN [value |-> "", err |-> TRUE]
    ELSE IF f.state = "missing" THEN [value |-> "", err |-> FALSE]
    ELSE [value |-> TrimSpace(f.content), err |-> FALSE]

\* MultiSourceSecret.Get: the value, the error, whether the sources were
\* evaluated, and the resolver afterwards
MultiSourceGet(m, t, e, f) ==
    IF CacheFresh(m, t)
    THEN [value |-> m.cache.value, err |-> FALSE, evaluated |-> FALSE, ms |-> m]
    ELSE LET r == ResolveSources(m, e, f)
         IN  [value |-> r.value, err |-> r.err, evaluated |-> TRUE,
              ms |-> IF r.err THEN m
                     ELSE [m EXCEPT !.cache = [valid |-> TRUE, value |-> r.value,
                                               resolvedAt |-> t]]]

\* faulty variant: InvalidateCache leaves the entry in place
InvalidateCacheKeepsEntry(m) == m

\* MultiSourceSecret.InvalidateCache
InvalidateCacheResult(m) == [m EXCEPT !.cache = NoEntry]

ExplicitKeys == {"", "cfg-key"}

EnvValues == {"", "env-key"}

FileStates ==
    {[state |-> "missing", content |-> ""],
     [state |-> "unreadable", content |-> ""],
     [state |-> "ok", content |-> " file-key\n"],
     [state |-> "ok", content |-> "\n"]}

NoGet == [called |-> FALSE, value |-> "", err |-> FALSE, evaluated |-> FALSE,
          fresh |-> FALSE, cached |-> "", afterInvalidate |-> FALSE,
          resolved |-> [value |-> "", err |-> FALSE]]

SecretInit ==
    /\ ms \in {NewMultiSourceSecret(k) : k \in ExplicitKeys}
    /\ now = 0
    /\ env \in EnvValues
    /\ file \in FileStates
    /\ lastGet = NoGet
    /\ dropped = [cleared |-> FALSE, entry |-> NoEntry]

SecretIdle ==
    /\ ms = NewMultiSourceSecret("")
    /\ now = 0
    /\ env = ""
    /\ file = [state |-> "missing", content |-> ""]
    /\ lastGet = NoGet
    /\ dropped = [cleared |-> FALSE, entry |-> NoEntry]

\* MultiSourceSecret.Get(ctx)
Get ==
    /\ LET g == MultiSourceGet(ms, now, env, file)
       IN  /\ ms' = g.ms
           /\ lastGet' = [called |-> TRUE, value |-> g.value, err |-> g.err,
                          evaluated |-> g.evaluated,
                          fresh |-> CacheFresh(ms, now),
                          cached |-> ms.cache.value,
                          afterInvalidate |-> dropped.cleared,
                          resolved |-> ResolveSources(ms, env, file)]
    /\ dropped' = [dropped EXCEPT !.cleared = FALSE]
    /\ UNCHANGED <<now, env, file>>
    /\ UNCHANGED <<normVars, proxyVars, resolverVars, moduleVars>>

\* MultiSourceSecret.InvalidateCache()
InvalidateCache ==
    /\ ms' = InvalidateCacheResult(ms)
    /\ dropped' = [cleared |-> TRUE, entry |-> ms.cache]
    /\ UNCHANGED <<now, env, file, lastGet>>
    /\ UNCHANGED <<normVars, proxyVars, resolverVars, moduleVars>>

\* a minute passes
Tick ==
    /\ now < MaxTime
    /\ now' = now + 1
    /\ UNCHANGED <<ms, env, file, lastGet, dropped>>
    /\ UNCHANGED <<normVars, proxyVars, resolverVars, moduleVars>>

\* the environment variable is set or cleared
SetEnv ==
    /\ \E e \in EnvValues : e # env /\ env' = e
    /\ UNCHANGED <<ms, now, file, lastGet, dropped>>
    /\ UNCHANGED <<normVars, proxyVars, resolverVars, moduleVars>>

\* the secrets file is written, removed or made unreadable
WriteFile ==
    /\ \E f \in FileStates : f # file /\ file' = f
    /\ UNCHANGED <<ms, now, env, lastGet, dropped>>
    /\ UNCHANGED <<normVars, proxyVars, resolverVars, moduleVars>>

(***************************************************************************)
(* The normalizer as a state machine                                       *)
(***************************************************************************)
NormInit ==
    /\ build \in {1, 2}
    /\ npc = "idle"
    /\ resp = NoResp
    /\ wire = NoWire
    /\ orig = NoOrig
    /\ got = [bytes |-> <<>>, err |-> "none"]

\* the transport received the response head; the body is still on the wire
UpstreamResponds ==
    /\ npc = "idle"
    /\ \E status \in Statuses, ce \in ContentEncodings, ct \in ContentTypes,
          te \in TransferEncodings, body \in Bodies :
         \E f \in 0..(Len(body) + 1) :
            /\ resp' = mkResp(status, ce, ct, te, body)
            /\ wire' = WireOf(body, f)
            /\ orig' = [body |-> body, wire |-> WireOf(body, f),
                        resp |-> mkResp(status, ce, ct, te, body)]
    /\ npc' = "received"
    /\ got' = [bytes |-> <<>>, err |-> "none"]
    /\ UNCHANGED build
    /\ UNCHANGED <<proxyVars, secretVars, resolverVars, moduleVars>>

\* proxy.ModifyResponse(resp)
ModifyResponse ==
    /\ npc = "received"
    /\ LET res == ModifyResponseResult(build, resp, wire)
       IN  /\ resp' = res.resp
           /\ wire' = res.wire
    /\ npc' = "modified"
    /\ UNCHANGED <<build, orig, got>>
    /\ UNCHANGED <<proxyVars, secretVars, resolverVars, moduleVars>>

\* the proxy copies resp.Body to the client: io.ReadAll(resp.Body)
CopyResponse ==
    /\ npc = "modified"
    /\ LET tl == IF resp.Body.tail THEN ReadAll(wire)
                 ELSE [bytes |-> <<>>, err |-> "none", wire |-> wire]
       IN  /\ got' = [bytes |-> resp.Body.buf \o tl.bytes, err |-> tl.err]
           /\ wire' = tl.wire
    /\ npc' = "copied"
    /\ UNCHANGED <<build, resp, orig>>
    /\ UNCHANGED <<proxyVars, secretVars, resolverVars, moduleVars>>

\* the exchange is over; the proxy serves the next one
NextExchange ==
    /\ npc = "copied"
    /\ npc' = "idle"
    /\ resp' = NoResp
    /\ wire' = NoWire
    /\ orig' = NoOrig
    /\ got' = [bytes |-> <<>>, err |-> "none"]
    /\ UNCHANGED build
    /\ UNCHANGED <<proxyVars, secretVars, resolverVars, moduleVars>>

(***************************************************************************)
(* The endpoint resolver (sdk/api/handlers/openai) over the model registry *)
(***************************************************************************)
openAIChatEndpoint == "/chat/completions"
openAIResponsesEndpoint == "/responses"

\* a nil *ModelInfo
NoInfo == [found |-> FALSE, SupportedEndpoints |-> <<>>]

ModelInfo(endpoints) == [found |-> TRUE, SupportedEndpoints |-> endpoints]

\* registry.GetModelInfo(modelName, ""): the descriptor registered under
\* exactly this identifier, nil when there is none
GetModelInfo(reg, modelName) ==
    IF modelName \in DOMAIN reg THEN reg[modelName] ELSE NoInfo

\* thinking.ParseSuffix(model): a trailing parenthesised modifier, from the
\* last "(" to a closing ")" at the very end, is split off the identifier
ParseSuffix(model) ==
    LET lastOpen == LastIndex(model, "(")
    IN  IF lastOpen = 0 \/ ~HasSuffix(model, ")")
        THEN [ModelName |-> model, HasSuffix |-> FALSE]
        ELSE [ModelName |-> SubSeq(model, 1, lastOpen - 1), HasSuffix |-> TRUE]

endpointListContains(items, value) == \E i \in 1..Len(items) : items[i] = value

\* faulty variant: the base identifier is looked up first
LookupInfoBaseFirst(reg, modelName) ==
    LET baseModel == ParseSuffix(modelName).ModelName
        base == GetModelInfo(reg, baseModel)
    IN  IF base.found THEN [info |-> base, lookups |-> <<baseModel>>]
        ELSE [info |-> GetModelInfo(reg, modelName), lookups |-> <<baseModel, modelName>>]

\* the descriptor resolveEndpointOverride decides from, and the registry
\* lookups it makes to find it, in order
LookupInfo(reg, modelName) ==
    LET info == GetModelInfo(reg, modelName)
        baseModel == ParseSuffix(modelName).ModelName
    IN  IF info.found THEN [info |-> info, lookups |-> <<modelName>>]
        ELSE IF baseModel # "" /\ baseModel # modelName
        THEN [info |-> GetModelInfo(reg, baseModel), lookups |-> <<modelName, baseModel>>]
        ELSE [info |-> info, lookups |-> <<modelName>>]

NoOverride(lookups) == [endpoint |-> "", ok |-> FALSE, lookups |-> lookups]

\* faulty variant: the test "requested endpoint is already supported" is missing
resolveEndpointOverrideAnyway(reg, modelName, requestedEndpoint) ==
    IF modelName = "" THEN NoOverride(<<>>)
    ELSE LET l == LookupInfo(reg, modelName)
             info == l.info
         IN  IF ~info.found \/ Len(info.SupportedEndpoints) = 0
             THEN NoOverride(l.lookups)
             ELSE IF /\ requestedEndpoint = openAIChatEndpoint
                     /\ endpointListContains(info.SupportedEndpoints, openAIResponsesEndpoint)
             THEN [endpoint |-> openAIResponsesEndpoint, ok |-> TRUE, lookups |-> l.lookups]
             ELSE IF /\ requestedEndpoint = openAIResponsesEndpoint
                     /\ endpointListContains(info.SupportedEndpoints, openAIChatEndpoint)
             THEN [endpoint |-> openAIChatEndpoint, ok |-> TRUE, lookups |-> l.lookups]
             ELSE NoOverride(l.lookups)

resolveEndpointOverride(reg, modelName, requestedEndpoint) ==
    IF modelName = "" THEN NoOverride(<<>>)
    ELSE LET l == LookupInfo(reg, modelName)
             info == l.info
         IN  IF ~info.found \/ Len(info.SupportedEndpoints) = 0
             THEN NoOverride(l.lookups)
             ELSE IF endpointListContains(info.SupportedEndpoints, requestedEndpoint)
             THEN NoOverride(l.lookups)
             ELSE IF /\ requestedEndpoint = openAIChatEndpoint
                     /\ endpointListContains(info.SupportedEndpoints, openAIResponsesEndpoint)
             THEN [endpoint |-> openAIResponsesEndpoint, ok |-> TRUE, lookups |-> l.lookups]
             ELSE IF /\ requestedEndpoint = openAIResponsesEndpoint
                     /\ endpointListContains(info.SupportedEndpoints, openAIChatEndpoint)
             THEN [endpoint |-> openAIChatEndpoint, ok |-> TRUE, lookups |-> l.lookups]
             ELSE NoOverride(l.lookups)

\* identifiers models are registered under
ModelIDs == {"test-gemini-chat-only", "test-gemini-chat-only(high)", "gpt"}

\* identifiers requests name
ModelNames ==
    ModelIDs \cup {"", "gpt(high)", "gpt(high", "(high)", "gpt()",
                   "test-gemini-chat-only(high)(low)", "unknown"}

Endpoints == {openAIChatEndpoint, openAIResponsesEndpoint, "/completions", ""}

EndpointLists ==
    {<<>>, <<openAIChatEndpoint>>, <<openAIResponsesEndpoint>>,
     <<openAIChatEndpoint, openAIResponsesEndpoint>>,
     <<"/completions">>, <<"/completions", openAIResponsesEndpoint>>}

NoCall == [made |-> FALSE, modelName |-> "", requestedEndpoint |-> "",
           endpoint |-> "", ok |-> FALSE, lookups |-> <<>>]

ResolverInit ==
    /\ registry = [id \in ModelIDs |-> NoInfo]
    /\ resolved = NoCall

\* reg.RegisterClient(clientID, provider, models) with one model
RegisterClient ==
    /\ \E id \in ModelIDs, eps \in EndpointLists :
          /\ registry[id] # ModelInfo(eps)
          /\ registry' = [registry EXCEPT ![id] = ModelInfo(eps)]
    /\ resolved' = NoCall
    /\ UNCHANGED <<normVars, proxyVars, secretVars, moduleVars>>

\* reg.UnregisterClient(clientID)
UnregisterClient ==
    /\ \E id \in ModelIDs :
          /\ registry[id].found
          /\ registry' = [registry EXCEPT ![id] = NoInfo]
    /\ resolved' = NoCall
    /\ UNCHANGED <<normVars, proxyVars, secretVars, moduleVars>>

\* a request names a model and an endpoint: resolveEndpointOverride(modelName, requestedEndpoint)
ResolveEndpointOverride ==
    /\ \E modelName \in ModelNames, requestedEndpoint \in Endpoints :
          LET r == resolveEndpointOverride(registry, modelName, requestedEndpoint)
          IN  resolved' = [made |-> TRUE, modelName |-> modelName,
                           requestedEndpoint |-> requestedEndpoint,
                           endpoint |-> r.endpoint, ok |-> r.ok,
                           lookups |-> r.lookups]
    /\ UNCHANGED registry
    /\ UNCHANGED <<normVars, proxyVars, secretVars, moduleVars>>

(***************************************************************************)
(* The module lifecycle: AmpModule.Register and AmpModule.OnConfigUpdated  *)
(***************************************************************************)
NoProxy == [built |-> FALSE, target |-> URLError]

\* New(accessManager, authMiddleware): the zero value of the other fields
New == [enabled |-> FALSE, proxy |-> NoProxy, secretSource |-> "nil"]

RouteGroups == {"management", "providerAliases"}

\* faulty variant: the module is marked enabled before the proxy is built
RegisterEnablesFirst(mod, rts, s, c) ==
    LET upstream == TrimSpace(c.AmpUpstreamURL)
        res == createReverseProxyResult(upstream)
    IN  IF upstream = ""
        THEN [m |-> [mod EXCEPT !.enabled = FALSE], routes |-> rts, ms |-> s, err |-> FALSE]
        ELSE IF res.err
        THEN [m |-> [mod EXCEPT !.secretSource = "ms", !.enabled = TRUE],
              routes |-> rts, ms |-> NewMultiSourceSecret(c.AmpUpstreamAPIKey),
              err |-> TRUE]
        ELSE [m |-> [enabled |-> TRUE,
                     proxy |-> [built |-> TRUE, target |-> res.parsed],
                     secretSource |-> "ms"],
              routes |-> rts \cup RouteGroups,
              ms |-> NewMultiSourceSecret(c.AmpUpstreamAPIKey), err |-> FALSE]

\* faulty variant: the secret source is created before the address is looked at
RegisterSecretFirst(mod, rts, s, c) ==
    LET upstream == TrimSpace(c.AmpUpstreamURL)
        res == createReverseProxyResult(upstream)
        withSecret == [mod EXCEPT !.secretSource = "ms"]
    IN  IF upstream = ""
        THEN [m |-> [withSecret EXCEPT !.enabled = FALSE], routes |-> rts,
              ms |-> NewMultiSourceSecret(c.AmpUpstreamAPIKey), err |-> FALSE]
        ELSE IF res.err
        THEN [m |-> withSecret,
              routes |-> rts, ms |-> NewMultiSourceSecret(c.AmpUpstreamAPIKey),
              err |-> TRUE]
        ELSE [m |-> [enabled |-> TRUE,
                     proxy |-> [built |-> TRUE, target |-> res.parsed],
                     secretSource |-> "ms"],
              routes |-> rts \cup RouteGroups,
              ms |-> NewMultiSourceSecret(c.AmpUpstreamAPIKey), err |-> FALSE]

\* AmpModule.Register(engine, baseHandler, cfg): the module, the engine's
\* route groups and the secret source afterwards, and whether it returned
\* an error
RegisterResult(mod, rts, s, c) ==
    LET upstream == TrimSpace(c.AmpUpstreamURL)
        res == createReverseProxyResult(upstream)
    IN  IF upstream = ""
        THEN [m |-> [mod EXCEPT !.enabled = FALSE], routes |-> rts, ms |-> s, err |-> FALSE]
        ELSE IF res.err
        THEN [m |-> [mod EXCEPT !.secretSource = "ms"],
              routes |-> rts, ms |-> NewMultiSourceSecret(c.AmpUpstreamAPIKey),
              err |-> TRUE]
        ELSE [m |-> [enabled |-> TRUE,
                     proxy |-> [built |-> TRUE, target |-> res.parsed],
                     secretSource |-> "ms"],
              routes |-> rts \cup RouteGroups,
              ms |-> NewMultiSourceSecret(c.AmpUpstreamAPIKey), err |-> FALSE]

\* faulty variant: a config without an upstream address disables the module
OnConfigUpdatedDisables(mod, s, c) ==
    IF ~mod.enabled THEN [m |-> mod, ms |-> s, invalidated |-> FALSE, err |-> FALSE]
    ELSE IF TrimSpace(c.AmpUpstreamURL) = ""
    THEN [m |-> [mod EXCEPT !.enabled = FALSE, !.proxy = NoProxy],
          ms |-> s, invalidated |-> FALSE, err |-> FALSE]
    ELSE IF mod.secretSource # "nil"
    THEN [m |-> mod, ms |-> InvalidateCacheResult(s), invalidated |-> TRUE, err |-> FALSE]
    ELSE [m |-> mod, ms |-> s, invalidated |-> FALSE, err |-> FALSE]

\* AmpModule.OnConfigUpdated(cfg)
OnConfigUpdatedResult(mod, s, c) ==
    IF ~mod.enabled THEN [m |-> mod, ms |-> s, invalidated |-> FALSE, err |-> FALSE]
    ELSE IF TrimSpace(c.AmpUpstreamURL) = ""
    THEN [m |-> mod, ms |-> s, invalidated |-> FALSE, err |-> FALSE]
    ELSE IF mod.secretSource # "nil"
    THEN [m |-> mod, ms |-> InvalidateCacheResult(s), invalidated |-> TRUE, err |-> FALSE]
    ELSE [m |-> mod, ms |-> s, invalidated |-> FALSE, err |-> FALSE]

ConfigURLs ==
    {"", " \t", "http://example.com", " https://example.com/api\n", " ://invalid "}

Configs ==
    {[AmpUpstreamURL |-> u, AmpUpstreamAPIKey |-> k] : u \in ConfigURLs, k \in ExplicitKeys}

NoConfig == [AmpUpstreamURL |-> "", AmpUpstreamAPIKey |-> ""]

NoModuleCall == [op |-> "none", err |-> FALSE, changed |-> FALSE]

ModuleInit ==
    /\ ampModule = New
    /\ routes = {}
    /\ cfg = NoConfig
    /\ registration = [done |-> FALSE, upstreamURL |-> "", err |-> FALSE]
    /\ called = NoModuleCall

\* the host calls m.Register(engine, baseHandler, cfg), once, at startup
Register ==
    /\ ~registration.done
    /\ \E c \in Configs :
         LET res == RegisterResult(ampModule, routes, ms, c)
         IN  /\ ampModule' = res.m
             /\ routes' = res.routes
             /\ ms' = res.ms
             /\ cfg' = c
             /\ registration' = [done |-> TRUE,
                                 upstreamURL |-> TrimSpace(c.AmpUpstreamURL),
                                 err |-> res.err]
             /\ called' = [op |-> "Register", err |-> res.err,
                           changed |-> <<res.m, res.routes, res.ms>> # <<ampModule, routes, ms>>]
    /\ UNCHANGED <<now, env, file, lastGet, dropped>>
    /\ UNCHANGED <<normVars, proxyVars, resolverVars>>

\* the host reloaded its configuration: m.OnConfigUpdated(cfg)
OnConfigUpdated ==
    /\ registration.done
    /\ \E c \in Configs :
         LET res == OnConfigUpdatedResult(ampModule, ms, c)
         IN  /\ ampModule' = res.m
             /\ ms' = res.ms
             /\ dropped' = IF res.invalidated
                           THEN [cleared |-> TRUE, entry |-> ms.cache]
                           ELSE dropped
             /\ cfg' = c
             /\ called' = [op |-> "OnConfigUpdated", err |-> res.err,
                           changed |-> <<res.m, res.ms>> # <<ampModule, ms>>]
    /\ UNCHANGED <<routes, registration>>
    /\ UNCHANGED <<now, env, file, lastGet>>
    /\ UNCHANGED <<normVars, proxyVars, resolverVars>>

\* a request on a management route: the proxy's director asks the module's
\* secret source for the credential
ForwardRequest ==
    /\ "management" \in routes
    /\ ampModule.proxy.built
    /\ Get

(***************************************************************************)
(* Specifications: the response normalizer, and the proxy around it        *)
(***************************************************************************)
InitNorm == NormInit /\ ProxyInit /\ SecretIdle /\ ResolverInit /\ ModuleInit

NextNorm ==
    \/ UpstreamResponds
    \/ ModifyResponse
    \/ CopyResponse
    \/ NextExchange

SpecNorm == InitNorm /\ [][NextNorm]_vars

Init == ProxyInit /\ NormInit /\ SecretIdle /\ ResolverInit /\ ModuleInit

Next ==
    \/ createReverseProxy
    \/ ServeDirector
    \/ TransportFails
    \/ UpstreamAnswers
    \/ RequestDone

Spec == Init /\ [][Next]_vars

InitSecret == SecretInit /\ NormInit /\ ProxyInit /\ ResolverInit /\ ModuleInit

NextSecret ==
    \/ Get
    \/ InvalidateCache
    \/ Tick
    \/ SetEnv
    \/ WriteFile

SpecSecret == InitSecret /\ [][NextSecret]_vars

InitResolver == ResolverInit /\ NormInit /\ ProxyInit /\ SecretIdle /\ ModuleInit

NextResolver ==
    \/ RegisterClient
    \/ UnregisterClient
    \/ ResolveEndpointOverride

SpecResolver == InitResolver /\ [][NextResolver]_vars

InitModule == ModuleInit /\ SecretIdle /\ NormInit /\ ProxyInit /\ ResolverInit

NextModule ==
    \/ Register
    \/ OnConfigUpdated
    \/ ForwardRequest
    \/ SetEnv
    \/ WriteFile

SpecModule == InitModule /\ [][NextModule]_vars

(***************************************************************************)
(* Properties of the response normalizer                                   *)
(***************************************************************************)
Is2xx(r) == r.StatusCode >= StatusOKLow /\ r.StatusCode < StatusOKHigh

\* what the upstream reader yields from now on
StillYields(w) == w.data \o (IF w.err THEN w.more ELSE <<>>)

\* the upstream reader delivers the whole body and then ends
ReadsToEnd(w) == ~w.err

\* a 2xx response without Content-Encoding that the compiled classifier
\* does not take for streaming, read without failure
Inspected ==
    /\ Is2xx(orig.resp)
    /\ orig.resp.Header["Content-Encoding"] = Absent
    /\ ~isStreamingResponse(build, orig.resp)
    /\ ReadsToEnd(orig.wire)

\* C1: a 2xx, non-streaming response without Content-Encoding whose body is
\* gzip(P) reaches the client as exactly P, with ContentLength = Len(P) and
\* no Content-Encoding header.
C1_GzipRoundTrip ==
    (npc = "copied" /\ Inspected) =>
        \A p \in Payloads :
            orig.body = gzipBytes(p) =>
                /\ got.bytes = p
                /\ got.err = "none"
                /\ resp.ContentLength = Len(p)
                /\ resp.Header["Content-Encoding"] = Absent

\* C2: a 2xx, non-streaming response without Content-Encoding whose body
\* starts with the gzip magic bytes but does not decompress reaches the
\* client byte-for-byte as sent, and its Content-Encoding is not touched.
C2_CorruptGzipUnchanged ==
    (/\ npc = "copied"
     /\ Inspected
     /\ IsGzipMagic(Len(orig.body), orig.body)
     /\ Gunzip(orig.body).err # "none") =>
        /\ got.bytes = orig.body
        /\ got.err = "none"
        /\ resp.Header["Content-Encoding"] = orig.resp.Header["Content-Encoding"]

\* the headers the spec classifies as streaming: Content-Type containing
\* "text/event-stream" or Transfer-Encoding containing "chunked"
StreamingHeaders(r) ==
    \/ Contains(HeaderGet(r.Header, "Content-Type"), "text/event-stream")
    \/ Contains(HeaderGet(r.Header, "Transfer-Encoding"), "chunked")

\* C3: a response with Content-Type containing "text/event-stream" or
\* Transfer-Encoding containing "chunked" is classified as streaming and is
\* handed on untouched: no byte of its body is read, nothing is decompressed.
C3_StreamingNeverDecompressed ==
    (npc \in {"modified", "copied"} /\ StreamingHeaders(orig.resp)) =>
        /\ isStreamingResponse(build, orig.resp)
        /\ resp = orig.resp
        /\ (npc = "modified" => wire = orig.wire)
        /\ (npc = "copied" => got.bytes \o StillYields(wire) = orig.body)

\* the cases the normalizer must pass through
PassThroughCase(r) ==
    \/ ~Is2xx(r)
    \/ r.Header["Content-Encoding"] \notin {Absent, ""}
    \/ isStreamingResponse(build, r)

\* C4: a response with status outside [200,300), or with a non-empty
\* Content-Encoding, or classified as streaming, leaves ModifyResponse with
\* no byte of its body read and body, ContentLength and headers as they came.
C4_PassThroughUntouched ==
    (npc = "modified" /\ PassThroughCase(orig.resp)) =>
        /\ wire = orig.wire
        /\ resp = orig.resp

C4_Witness ==
    /\ npc = "modified"
    /\ orig.resp.StatusCode = StatusOKLow
    /\ orig.resp.Header["Content-Encoding"] = "gzip"
    /\ orig.body \in GzipBodies
    /\ orig.body # <<>>

\* C5: for a 2xx, non-streaming response without Content-Encoding whose body
\* has fewer than two bytes or does not start with 0x1F 0x8B, the client
\* reads the original bytes, none lost or repeated, under unchanged headers.
C5_NonGzipRestored ==
    (/\ npc = "copied"
     /\ Is2xx(orig.resp)
     /\ orig.resp.Header["Content-Encoding"] = Absent
     /\ ~isStreamingResponse(build, orig.resp)
     /\ ~IsGzipMagic(Len(orig.body), orig.body)) =>
        /\ got.bytes \o StillYields(wire) = orig.body
        /\ (ReadsToEnd(orig.wire) => got.bytes = orig.body /\ got.err = "none")
        /\ resp.Header = orig.resp.Header
        /\ resp.ContentLength = orig.resp.ContentLength

C5_Witness ==
    /\ npc = "copied"
    /\ Is2xx(orig.resp)
    /\ orig.resp.Header["Content-Encoding"] = Absent
    /\ ~isStreamingResponse(build, orig.resp)
    /\ orig.body = <<GzipMagic0>>
    /\ got.bytes = <<GzipMagic0>>

(***************************************************************************)
(* Properties of the director, the error handler and createReverseProxy    *)
(***************************************************************************)
Directed == rpc \in {"directed", "failed", "answered"}

\* C6: when the secret source returns the empty value, the forwarded request
\* carries neither X-Api-Key nor Authorization, not even with an empty value.
C6_EmptySecretNoCredentialHeaders ==
    (Directed /\ SecretGet(secretSource).key = "") =>
        /\ outReq.Header["X-Api-Key"] = <<>>
        /\ outReq.Header["Authorization"] = <<>>

\* What the director does on an empty secret: it adds nothing, so the two
\* headers go out exactly as the client sent them.
DirectorAddsNothingOnEmptySecret ==
    (Directed /\ SecretGet(secretSource).key = "") =>
        outReq.Header = inReq.Header

\* C7: when the secret source returns a non-empty k without error, the
\* forwarded request carries X-Api-Key = k and Authorization = "Bearer " k as
\* the only values of these headers, and its Host is the upstream's host.
C7_CredentialInjected ==
    (Directed /\ ~SecretGet(secretSource).err /\ SecretGet(secretSource).key # "") =>
        LET k == SecretGet(secretSource).key
            auth == outReq.Header["Authorization"]
        IN  /\ outReq.Header["X-Api-Key"] = <<k>>
            /\ Len(auth) = 1
            /\ SubSeq(auth[1], 1, 7) = "Bearer "
            /\ Drop(auth[1], 7) = k
            /\ outReq.Host = parsed.Host

C7_Witness ==
    /\ rpc = "directed"
    /\ secretSource = [value |-> "secret", err |-> FALSE]
    /\ inReq.Header["X-Api-Key"] = <<"client-key">>
    /\ Len(inReq.Header["Authorization"]) = 2
    /\ outReq.Header["Authorization"] = <<"Bearer secret">>
    /\ outReq.Host = "example.com"

\* C8: a transport failure is answered with 502, Content-Type
\* application/json and the fixed body carrying "amp_upstream_proxy_error",
\* the same for every error and without the error's text.
C8_FixedBadGateway ==
    rpc = "failed" =>
        /\ rw.written
        /\ rw.StatusCode = 502
        /\ rw.Header["Content-Type"] = <<"application/json">>
        /\ rw.Body = ErrorBody
        /\ Contains(rw.Body, "\"amp_upstream_proxy_error\"")
        /\ \A e \in TransportErrors : ~Contains(rw.Body, e)

C8_Witness ==
    /\ rpc = "failed"
    /\ rw.written
    /\ rw.log[3] = "context deadline exceeded"
    /\ rw.StatusCode = 502

\* a well-formed absolute URL: it parses, and has a scheme and a host
WellFormedAbsolute(addr) ==
    LET u == Parse(addr) IN ~u.err /\ u.Scheme # "" /\ u.Host # ""

\* C9: createReverseProxy fails exactly for the addresses that are not
\* well-formed absolute URLs.
C9_RejectsNonAbsoluteURL ==
    ppc # "none" =>
        /\ ~WellFormedAbsolute(upstreamURL) => ppc = "failed"
        /\ WellFormedAbsolute(upstreamURL) => ppc = "built"

(***************************************************************************)
(* Properties of the Multi-Source secret resolver                          *)
(***************************************************************************)
\* C10: a Get made while a cache entry exists and is younger than the TTL
\* returns the cached value and evaluates no source; the first Get after an
\* InvalidateCache evaluates the sources, whatever the age of the entry that
\* was cleared, and returns what they resolve to.
C10_CacheAndInvalidate ==
    lastGet.called =>
        /\ lastGet.fresh =>
              /\ lastGet.value = lastGet.cached
              /\ ~lastGet.err
              /\ ~lastGet.evaluated
        /\ lastGet.afterInvalidate =>
              /\ lastGet.evaluated
              /\ lastGet.value = lastGet.resolved.value
              /\ lastGet.err = lastGet.resolved.err

\* a Get right after InvalidateCache cleared an entry younger than the TTL,
\* returning a value that entry did not hold
C10_Witness ==
    /\ lastGet.called
    /\ lastGet.afterInvalidate
    /\ dropped.entry.valid
    /\ now - dropped.entry.resolvedAt < DefaultTTL
    /\ now > 0
    /\ lastGet.value = "file-key"
    /\ dropped.entry.value = "env-key"

(***************************************************************************)
(* Properties of the endpoint resolver                                     *)
(***************************************************************************)
\* the supported set S of a descriptor
Supported(info) == {info.SupportedEndpoints[i] : i \in 1..Len(info.SupportedEndpoints)}

Registered(name) == name \in ModelIDs /\ registry[name].found

\* the descriptor of a model name: the one registered under the name, or
\* else the one registered under its base identifier
DescriptorOf(name) ==
    IF Registered(name) THEN registry[name]
    ELSE IF Registered(ParseSuffix(name).ModelName)
    THEN registry[ParseSuffix(name).ModelName]
    ELSE NoInfo

\* r is one of the two interchangeable shapes, is not supported, and the
\* other shape is
Interchangeable(S, r) ==
    /\ r \notin S
    /\ \/ r = openAIChatEndpoint /\ openAIResponsesEndpoint \in S
       \/ r = openAIResponsesEndpoint /\ openAIChatEndpoint \in S

OtherShape(r) ==
    IF r = openAIChatEndpoint THEN openAIResponsesEndpoint ELSE openAIChatEndpoint

\* C11: resolveEndpointOverride applies an override exactly when the model
\* has a descriptor with a non-empty supported set S, the requested endpoint
\* r is not in S, and r is one of the chat-completion and responses shapes
\* while the other one is in S; the override is then that other shape. In
\* every other case (r in S, empty model name, unknown model, empty S) it
\* returns the empty endpoint and applies = false.
C11_OverrideExactly ==
    resolved.made =>
        LET S == Supported(DescriptorOf(resolved.modelName))
            r == resolved.requestedEndpoint
            applies == resolved.modelName # "" /\ S # {} /\ Interchangeable(S, r)
        IN  /\ resolved.ok = applies
            /\ resolved.endpoint = IF applies THEN OtherShape(r) ELSE ""

\* the test's model, asked for the responses shape, is sent to chat completions
C11_Witness ==
    /\ resolved.made
    /\ resolved.modelName = "test-gemini-chat-only"
    /\ registry["test-gemini-chat-only"] = ModelInfo(<<openAIChatEndpoint>>)
    /\ resolved.requestedEndpoint = openAIResponsesEndpoint
    /\ resolved.ok
    /\ resolved.endpoint = openAIChatEndpoint

\* C12: for an identifier with a modifier suffix that is not registered
\* itself while its base identifier is, the decision is the one the base
\* identifier's descriptor gives; the registry is asked for the exact
\* identifier first, for the base identifier only when that lookup found
\* nothing, and never a third time.
C12_BaseLookupOnce ==
    resolved.made =>
        LET name == resolved.modelName
            base == ParseSuffix(name).ModelName
            S == Supported(GetModelInfo(registry, base))
            r == resolved.requestedEndpoint
            applies == S # {} /\ Interchangeable(S, r)
        IN  /\ Len(resolved.lookups) <= 2
            /\ Len(resolved.lookups) >= 1 => resolved.lookups[1] = name
            /\ Len(resolved.lookups) = 2 =>
                  /\ ~Registered(name)
                  /\ base # name
                  /\ resolved.lookups[2] = base
            /\ (ParseSuffix(name).HasSuffix /\ ~Registered(name) /\ Registered(base)) =>
                  /\ resolved.lookups = <<name, base>>
                  /\ resolved.ok = applies
                  /\ resolved.endpoint = IF applies THEN OtherShape(r) ELSE ""

\* the test: "test-gemini-chat-only(high)" is not registered, its base is
C12_Witness ==
    /\ resolved.made
    /\ resolved.modelName = "test-gemini-chat-only(high)"
    /\ ~registry["test-gemini-chat-only(high)"].found
    /\ registry["test-gemini-chat-only"] = ModelInfo(<<openAIChatEndpoint>>)
    /\ resolved.requestedEndpoint = openAIResponsesEndpoint
    /\ resolved.lookups = <<"test-gemini-chat-only(high)", "test-gemini-chat-only">>
    /\ resolved.ok
    /\ resolved.endpoint = openAIChatEndpoint

(***************************************************************************)
(* Properties of the module lifecycle                                      *)
(***************************************************************************)
\* Register ran with a non-empty address that createReverseProxy rejects
ConstructionFailed ==
    /\ registration.done
    /\ registration.upstreamURL # ""
    /\ createReverseProxyResult(registration.upstreamURL).err

\* C13: after a Register whose non-empty upstream address cannot be made
\* into a proxy, Register has returned an error, neither route group is
\* registered, the module is disabled, and every OnConfigUpdated since has
\* returned success without changing anything.
C13_FailedRegisterLeavesDisabled ==
    ConstructionFailed =>
        /\ registration.err
        /\ routes = {}
        /\ ~ampModule.enabled
        /\ ~ampModule.proxy.built
        /\ called.op = "OnConfigUpdated" => (~called.changed /\ ~called.err)

\* a failed Register, then a config reload that names a usable address
C13_Witness ==
    /\ ConstructionFailed
    /\ registration.err
    /\ called.op = "OnConfigUpdated"
    /\ cfg.AmpUpstreamURL = "http://example.com"
    /\ ~ampModule.enabled

\* C14: after a Register with an empty or whitespace-only upstream address,
\* Register has returned success, the module is disabled, it holds neither
\* a secret resolver nor a proxy, and no route group is registered.
C14_EmptyAddressDisables ==
    (registration.done /\ registration.upstreamURL = "") =>
        /\ ~registration.err
        /\ ~ampModule.enabled
        /\ ampModule.secretSource = "nil"
        /\ ms = NewMultiSourceSecret("")
        /\ ampModule.proxy = NoProxy
        /\ routes = {}

\* Register with a whitespace-only address and a configured key
C14_Witness ==
    /\ called.op = "Register"
    /\ ~called.err
    /\ cfg.AmpUpstreamURL = " \t"
    /\ cfg.AmpUpstreamAPIKey = "cfg-key"
    /\ ~ampModule.enabled

\* C15: once Register has completed, no step changes the module's enabled
\* flag or its proxy; on a disabled module nothing changes at all; and every
\* OnConfigUpdated returns success.
C15_ConfigUpdateKeepsEnabledAndProxy ==
    [][registration.done =>
          /\ ampModule'.enabled = ampModule.enabled
          /\ ampModule'.proxy = ampModule.proxy
          /\ ~ampModule.enabled => UNCHANGED <<ampModule, routes, ms, lastGet, dropped>>
          /\ called'.op = "OnConfigUpdated" => ~called'.err]_vars

\* an enabled module after a reload whose config has the address cleared
C15_Witness ==
    /\ called.op = "OnConfigUpdated"
    /\ ~called.err
    /\ TrimSpace(cfg.AmpUpstreamURL) = ""
    /\ ampModule.enabled
    /\ ampModule.proxy.built
    /\ routes = RouteGroups

\* C16: an OnConfigUpdated on an enabled module with a config whose
\* credential differs from the one in force leaves the secret resolver
\* without a cache entry, so that the next forwarded request evaluates the
\* sources, and leaves the proxy as it was.
C16_CredentialChangeInvalidates ==
    [][(/\ registration.done
        /\ ampModule.enabled
        /\ cfg'.AmpUpstreamAPIKey # cfg.AmpUpstreamAPIKey) =>
          /\ ~ms'.cache.valid
          /\ ampModule'.proxy = ampModule.proxy]_vars

\* what holds: the same, for configs that still name an upstream address
ConfigUpdateWithAddressInvalidates ==
    [][(/\ registration.done
        /\ ampModule.enabled
        /\ TrimSpace(cfg'.AmpUpstreamURL) # ""
        /\ cfg'.AmpUpstreamAPIKey # cfg.AmpUpstreamAPIKey) =>
          /\ ~ms'.cache.valid
          /\ ampModule'.proxy = ampModule.proxy]_vars

(***************************************************************************)
(* Properties of the response normalizer when the upstream reader fails    *)
(***************************************************************************)
\* an inspected response whose body starts with the gzip magic bytes and
\* whose reader fails after them
RemainderReadFails ==
    /\ Is2xx(orig.resp)
    /\ orig.resp.Header["Content-Encoding"] = Absent
    /\ ~isStreamingResponse(build, orig.resp)
    /\ orig.wire.err
    /\ IsGzipMagic(Len(orig.wire.data), orig.wire.data)

\* C17: when the body starts with the gzip magic bytes and reading the
\* remainder fails part-way, the body handed on holds every byte read from
\* the upstream so far (the two peeked bytes, then the bytes of the
\* remainder read before the failure), in order and once, under unchanged
\* headers, followed by what the upstream reader still yields.
C17_ReadFailureKeepsBytes ==
    (npc = "modified" /\ RemainderReadFails) =>
        /\ resp.Body.buf = orig.wire.data
        /\ resp.Body.tail
        /\ StillYields(wire) = orig.wire.more
        /\ resp.Header = orig.resp.Header
        /\ resp.ContentLength = orig.resp.ContentLength

====
